---- MODULE Spec2Model ----
(***************************************************************************)
(* The ETL service of src/lab_5/lab_5.py: extract_data, transform_data     *)
(* (seed from source A, merge of source B), load_data, and the two HTTP    *)
(* handlers run_etl_process (POST /run-etl) and get_consolidated_data      *)
(* (GET /consolidated-data); and the CRUD service of src/lab_4/lab_4.py.   *)
(*                                                                         *)
(* Four specifications:                                                    *)
(*   SpecTransform  transform_data, one loop iteration per step, on every  *)
(*                  pair of bounded input lists;                           *)
(*   SpecUpdate     the same steps on inputs chosen for the update branch; *)
(*   Spec           the ETL service: the three files, one run handler      *)
(*                  whose file write is two steps (open-and-truncate,      *)
(*                  dump) and a reader that may open the snapshot at any   *)
(*                  moment;                                                *)
(*   SpecCrud       the CRUD service: products_db, next_product_id and one *)
(*                  step per request.                                      *)
(***************************************************************************)
EXTENDS Integers, Sequences, FiniteSets, TLC

VARIABLES
  data_a,                \* transform_data's first argument / extract_data's first result
  data_b,                \* transform_data's second argument / extract_data's second result
  pc,                    \* position in transform_data (SpecTransform) or in run_etl_process (Spec)
  idx,                   \* 1-based index of the next item of the running for loop
  transformed_products,  \* the dict of lab_5.py:110, in insertion order
  current_max_id,        \* the counter of lab_5.py:148
  source_a,              \* the file SOURCE_A_PATH
  source_b,              \* the file SOURCE_B_PATH
  consolidated,          \* the file CONSOLIDATED_DATA_PATH
  transformed_data,      \* the list run_etl_process holds between transform and load
  load_log,              \* the line load_data logged last
  run_response,          \* what the last finished POST /run-etl answered
  get_response,          \* what the last GET /consolidated-data answered
  get_request,           \* history: when the last GET ran and what its open() found
  runs,                  \* number of POST /run-etl requests started
  products_db,           \* lab_4.py:23, the dict of the CRUD service, in insertion order
  next_product_id,       \* lab_4.py:25
  crud_response,         \* what the last request to the CRUD service answered
  deleted_ids            \* history: the ids delete_product has removed

vars == <<data_a, data_b, pc, idx, transformed_products, current_max_id,
          source_a, source_b, consolidated, transformed_data, load_log,
          run_response, get_response, get_request, runs,
          products_db, next_product_id, crud_response, deleted_ids>>

transformVars == <<data_a, data_b, pc, idx, transformed_products, current_max_id>>
serviceVars == <<source_a, source_b, consolidated, transformed_data, load_log,
                 run_response, get_response, get_request, runs>>
crudVars == <<products_db, next_product_id, crud_response, deleted_ids>>
etlVars == <<data_a, data_b, pc, idx, transformed_products, current_max_id,
             source_a, source_b, consolidated, transformed_data, load_log,
             run_response, get_response, get_request, runs>>

(***************************************************************************)
(* Bounds of the model.                                                    *)
(***************************************************************************)
MaxPrimary == 2     \* longest data_a list SpecTransform draws
MaxPatch == 2       \* longest data_b list SpecTransform draws
MaxFileItems == 1   \* longest JSON array a source file of Spec holds
MaxRuns == 2        \* POST /run-etl requests per behaviour of Spec

(***************************************************************************)
(* JSON / Python values.  A value is tagged with its type; None stands for *)
(* a key that is absent from a raw dict, for JSON null and for Python's    *)
(* None.  Names, descriptions and suppliers are strings; a category is the *)
(* tuple of its characters, so that str.lower() can be computed.  Prices   *)
(* are whole currency units.  A list is tagged too: data_a and data_b hold *)
(* whatever json.load returned, which need not be a list.                  *)
(***************************************************************************)
None == [t |-> "none"]
Num(n) == [t |-> "num", v |-> n]
Str(s) == [t |-> "str", v |-> s]
List(items) == [t |-> "list", v |-> items]

IsNone(x) == x.t = "none"
IsNum(x) == x.t = "num"
IsStr(x) == x.t = "str"
IsList(x) == x.t = "list"

\* Python truthiness of an Optional[str]: None and "" are falsy.
Truthy(x) == IsStr(x) /\ Len(x.v) > 0

MaxOf(S) == CHOOSE m \in S : \A k \in S : k <= m

(***************************************************************************)
(* str.lower() on the ASCII letters.                                       *)
(***************************************************************************)
UpperLetters ==
  <<"A","B","C","D","E","F","G","H","I","J","K","L","M",
    "N","O","P","Q","R","S","T","U","V","W","X","Y","Z">>
LowerLetters ==
  <<"a","b","c","d","e","f","g","h","i","j","k","l","m",
    "n","o","p","q","r","s","t","u","v","w","x","y","z">>

LowerChar(c) ==
  IF \E i \in 1..Len(UpperLetters) : UpperLetters[i] = c
  THEN LowerLetters[CHOOSE i \in 1..Len(UpperLetters) : UpperLetters[i] = c]
  ELSE c

lower(s) == [i \in 1..Len(s) |-> LowerChar(s[i])]

(***************************************************************************)
(* The category synonym table.  The canonical names are Ukrainian words in *)
(* the source; they are written here in Latin transliteration.             *)
(***************************************************************************)
c_laptops == <<"l","a","p","t","o","p","s">>
c_notebooks == <<"n","o","t","e","b","o","o","k","s">>
c_smartphones == <<"s","m","a","r","t","p","h","o","n","e","s">>
c_phones == <<"p","h","o","n","e","s">>
c_audio == <<"a","u","d","i","o">>
c_headphones == <<"h","e","a","d","p","h","o","n","e","s">>
c_tablets == <<"t","a","b","l","e","t","s">>
c_wearables == <<"w","e","a","r","a","b","l","e","s">>

Noutbuky == <<"N","o","u","t","b","u","k","y">>                     \* "Ноутбуки"
Smartfony == <<"S","m","a","r","t","f","o","n","y">>                \* "Смартфони"
Audiotekhnika == <<"A","u","d","i","o","t","e","k","h","n","i","k","a">>  \* "Аудіотехніка"
Planshety == <<"P","l","a","n","s","h","e","t","y">>                \* "Планшети"
NosymiPrystroi == <<"N","o","s","y","m","i"," ","p","r","y","s","t","r","o","i">>  \* "Носимі пристрої"

\* The chain without .lower(): only the lowercase spellings would match.
StandardizeCategoryCaseSensitive(c) ==
  IF c \in {c_laptops, c_notebooks} THEN Noutbuky
  ELSE IF c \in {c_smartphones, c_phones} THEN Smartfony
  ELSE IF c \in {c_audio, c_headphones} THEN Audiotekhnika
  ELSE IF c \in {c_tablets} THEN Planshety
  ELSE IF c \in {c_wearables} THEN NosymiPrystroi
  ELSE c

\* lab_5.py:124-133; the same chain is repeated at 161-172 and 200-211.
StandardizeCategory(c) ==
  LET category_lower == lower(c)
  IN  IF category_lower \in {c_laptops, c_notebooks} THEN Noutbuky
      ELSE IF category_lower \in {c_smartphones, c_phones} THEN Smartfony
      ELSE IF category_lower \in {c_audio, c_headphones} THEN Audiotekhnika
      ELSE IF category_lower \in {c_tablets} THEN Planshety
      ELSE IF category_lower \in {c_wearables} THEN NosymiPrystroi
      ELSE c

(***************************************************************************)
(* The pydantic models.                                                    *)
(***************************************************************************)
NameMinLength == 3

\* ProductBase: name (min_length 3), category, price (gt 0), stock (ge 0).
ProductBase(name, category, price, stock) ==
  /\ IsStr(name) /\ Len(name.v) >= NameMinLength
  /\ IsStr(category)
  /\ IsNum(price) /\ price.v > 0
  /\ IsNum(stock) /\ stock.v >= 0

\* ProductSourceA(**raw) validates.
ProductSourceA(raw) ==
  /\ IsNum(raw.id)
  /\ ProductBase(raw.name, raw.category, raw.price, raw.stock)

OptionalStr(x) == IsNone(x) \/ IsStr(x)
OptionalNum(x) == IsNone(x) \/ IsNum(x)

\* ProductSourceB(**raw) validates: only product_id is required, and no
\* field carries a constraint beyond its type.
ProductSourceB(raw) ==
  /\ IsNum(raw.product_id)
  /\ OptionalStr(raw.name) /\ OptionalStr(raw.category)
  /\ OptionalStr(raw.description) /\ OptionalStr(raw.supplier)
  /\ OptionalNum(raw.old_price) /\ OptionalNum(raw.price) /\ OptionalNum(raw.stock)

\* ConsolidatedProduct(**fields) validates.
ConsolidatedProduct(p) ==
  /\ IsNum(p.id)
  /\ ProductBase(p.name, p.category, p.price, p.stock)
  /\ OptionalStr(p.description) /\ OptionalStr(p.supplier)
  /\ OptionalNum(p.price_change_percentage)

(***************************************************************************)
(* A Python dict that keeps insertion order: a sequence of entries with    *)
(* pairwise different keys.                                                *)
(***************************************************************************)
Keys(d) == {d[i].key : i \in 1..Len(d)}
Has(d, k) == k \in Keys(d)
Get(d, k) == d[CHOOSE i \in 1..Len(d) : d[i].key = k].val
Values(d) == [i \in 1..Len(d) |-> d[i].val]

\* d[k] = v
DictSet(d, k, v) ==
  IF Has(d, k)
  THEN [i \in 1..Len(d) |-> IF d[i].key = k THEN [key |-> k, val |-> v] ELSE d[i]]
  ELSE Append(d, [key |-> k, val |-> v])

(***************************************************************************)
(* transform_data, step 1: source A (lab_5.py:113-144).                    *)
(***************************************************************************)
\* item_a_raw.get(key, 0): an absent key reads as 0.
GetOr0(x) == IF IsNone(x) THEN Num(0) ELSE x

\* lab_5.py:116 raises TypeError (a str compared with 0); the except clause
\* of line 143 then skips the item.  `or` evaluates stock only when the
\* price comparison is False.
CleaningRaises(raw) ==
  \/ IsStr(raw.price)
  \/ /\ IsNum(GetOr0(raw.price)) /\ GetOr0(raw.price).v > 0
     /\ IsStr(raw.stock)

\* Line 116 with < for <=: a zero price or stock would be kept.
ZeroPriceOrStockAllowingZero(raw) ==
  GetOr0(raw.price).v < 0 \/ GetOr0(raw.stock).v < 0

\* lab_5.py:116: the item has zero (or negative, or no) price or stock.
ZeroPriceOrStock(raw) ==
  GetOr0(raw.price).v <= 0 \/ GetOr0(raw.stock).v <= 0

\* What one iteration of the source-A loop does with an item.
SeedOutcome(raw) ==
  IF CleaningRaises(raw) THEN "invalid"
  ELSE IF ZeroPriceOrStock(raw) THEN "cleaned"
  ELSE IF ~ProductSourceA(raw) THEN "invalid"
  ELSE "kept"

\* Lines 136-142 with price_change_percentage=0.0 passed as well.
SeededProductWithZeroPercentage(raw) ==
  [id |-> raw.id,
   name |-> raw.name,
   category |-> Str(StandardizeCategory(raw.category.v)),
   price |-> raw.price,
   stock |-> raw.stock,
   description |-> None,
   supplier |-> None,
   price_change_percentage |-> Num(0)]

\* lab_5.py:136-142
SeededProduct(raw) ==
  [id |-> raw.id,
   name |-> raw.name,
   category |-> Str(StandardizeCategory(raw.category.v)),
   price |-> raw.price,
   stock |-> raw.stock,
   description |-> None,
   supplier |-> None,
   price_change_percentage |-> None]

\* One iteration of the loop of lab_5.py:113-144 on dict tp.
seed_item(tp, raw) ==
  IF SeedOutcome(raw) = "kept"
  THEN DictSet(tp, raw.id.v, SeededProduct(raw))
  ELSE tp

(***************************************************************************)
(* transform_data, step 2: source B (lab_5.py:147-224).                    *)
(***************************************************************************)
\* Line 148 with len(transformed_products) for max(keys).
InitialMaxIdFromCount(tp) == Len(tp)

\* lab_5.py:148
InitialMaxId(tp) == IF Keys(tp) # {} THEN MaxOf(Keys(tp)) ELSE 0

\* n / d rounded to the nearest integer, ties to even (d # 0).
RoundDiv(n, d) ==
  LET nn == IF d < 0 THEN -n ELSE n
      dd == IF d < 0 THEN -d ELSE d
      q == nn \div dd
      r == nn % dd
  IN  IF 2 * r < dd THEN q
      ELSE IF 2 * r > dd THEN q + 1
      ELSE IF q % 2 = 0 THEN q ELSE q + 1

\* Line 182 dividing by the new price instead of the reference price.
PriceChangePercentageOfNew(new_price_b, old_price_for_calc) ==
  RoundDiv((new_price_b - old_price_for_calc) * 10000, new_price_b)

\* lab_5.py:182: round(((new - old) / old) * 100, 2), as a whole number of
\* hundredths of a percent (-10.0 is -1000).
PriceChangePercentage(new_price_b, old_price_for_calc) ==
  RoundDiv((new_price_b - old_price_for_calc) * 10000, old_price_for_calc)

\* Lines 157-185 with line 184 moved above line 178: the price would be
\* overwritten before the percentage is computed.
UpdatedProductOverwritingFirst(existing_product, item_b) ==
  LET price == IF ~IsNone(item_b.price) THEN item_b.price ELSE existing_product.price
      new_price_b == price.v
      old_price_for_calc ==
        IF ~IsNone(item_b.old_price) THEN item_b.old_price.v ELSE price.v
  IN  [id |-> existing_product.id,
       name |-> IF Truthy(item_b.name) THEN item_b.name ELSE existing_product.name,
       category |-> IF Truthy(item_b.category)
                    THEN Str(StandardizeCategory(item_b.category.v))
                    ELSE existing_product.category,
       description |-> IF Truthy(item_b.description) THEN item_b.description
                       ELSE existing_product.description,
       supplier |-> IF Truthy(item_b.supplier) THEN item_b.supplier
                    ELSE existing_product.supplier,
       price_change_percentage |->
         IF old_price_for_calc # 0 /\ new_price_b # old_price_for_calc
         THEN Num(PriceChangePercentage(new_price_b, old_price_for_calc))
         ELSE existing_product.price_change_percentage,
       price |-> price,
       stock |-> IF ~IsNone(item_b.stock) THEN item_b.stock ELSE existing_product.stock]

\* lab_5.py:157-185: the existing product after the patch item_b.  Plain
\* attribute assignment: pydantic validates nothing here.
UpdatedProduct(existing_product, item_b) ==
  LET new_price_b ==
        IF ~IsNone(item_b.price) THEN item_b.price.v ELSE existing_product.price.v
      old_price_for_calc ==
        IF ~IsNone(item_b.old_price) THEN item_b.old_price.v
        ELSE existing_product.price.v
  IN  [id |-> existing_product.id,
       name |-> IF Truthy(item_b.name) THEN item_b.name ELSE existing_product.name,
       category |-> IF Truthy(item_b.category)
                    THEN Str(StandardizeCategory(item_b.category.v))
                    ELSE existing_product.category,
       description |-> IF Truthy(item_b.description) THEN item_b.description
                       ELSE existing_product.description,
       supplier |-> IF Truthy(item_b.supplier) THEN item_b.supplier
                    ELSE existing_product.supplier,
       price_change_percentage |->
         IF old_price_for_calc # 0 /\ new_price_b # old_price_for_calc
         THEN Num(PriceChangePercentage(new_price_b, old_price_for_calc))
         ELSE existing_product.price_change_percentage,
       price |-> IF ~IsNone(item_b.price) THEN item_b.price ELSE existing_product.price,
       stock |-> IF ~IsNone(item_b.stock) THEN item_b.stock ELSE existing_product.stock]

\* lab_5.py:191
HasCoreFields(item_b) ==
  /\ Truthy(item_b.name) /\ Truthy(item_b.category)
  /\ ~IsNone(item_b.price) /\ ~IsNone(item_b.stock)

\* Lines 214-222 with id=item_b.product_id for id=new_id.
NewProductKeepingPatchId(new_id, item_b) ==
  [id |-> item_b.product_id,
   name |-> item_b.name,
   category |-> Str(StandardizeCategory(item_b.category.v)),
   price |-> item_b.price,
   stock |-> item_b.stock,
   description |-> item_b.description,
   supplier |-> item_b.supplier,
   price_change_percentage |-> None]

\* lab_5.py:214-222: the fields handed to ConsolidatedProduct(...).
NewProduct(new_id, item_b) ==
  [id |-> Num(new_id),
   name |-> item_b.name,
   category |-> Str(StandardizeCategory(item_b.category.v)),
   price |-> item_b.price,
   stock |-> item_b.stock,
   description |-> item_b.description,
   supplier |-> item_b.supplier,
   price_change_percentage |-> None]

\* What one iteration of the source-B loop does with an item, given the dict.
MergeOutcome(tp, raw) ==
  IF ~ProductSourceB(raw) THEN "invalid"
  ELSE IF Has(tp, raw.product_id.v) THEN "updated"
  ELSE IF ~HasCoreFields(raw) THEN "missing"
  ELSE IF ~ConsolidatedProduct(NewProduct(0, raw)) THEN "rejected"
  ELSE "inserted"

\* The loop body with line 195 moved above the check of line 191: a patch
\* without its core fields would use up an id too.
merge_item_incrementing_first(st, raw) ==
  LET outcome == MergeOutcome(st.tp, raw)
      product_id == raw.product_id.v
      new_id == st.max + 1
  IN  CASE outcome = "updated" ->
             [tp |-> DictSet(st.tp, product_id,
                             UpdatedProduct(Get(st.tp, product_id), raw)),
              max |-> st.max]
        [] outcome = "inserted" ->
             [tp |-> DictSet(st.tp, new_id, NewProduct(new_id, raw)),
              max |-> new_id]
        [] outcome \in {"rejected", "missing"} -> [tp |-> st.tp, max |-> new_id]
        [] OTHER -> st

\* One iteration of the loop of lab_5.py:150-224 on st = [tp, max]: the dict
\* and current_max_id.  Line 195 increments the counter before line 214
\* constructs (and validates) the new product.
merge_item(st, raw) ==
  LET outcome == MergeOutcome(st.tp, raw)
      product_id == raw.product_id.v
      new_id == st.max + 1
  IN  CASE outcome = "updated" ->
             [tp |-> DictSet(st.tp, product_id,
                             UpdatedProduct(Get(st.tp, product_id), raw)),
              max |-> st.max]
        [] outcome = "inserted" ->
             [tp |-> DictSet(st.tp, new_id, NewProduct(new_id, raw)),
              max |-> new_id]
        [] outcome = "rejected" -> [tp |-> st.tp, max |-> new_id]
        [] OTHER -> st

(***************************************************************************)
(* transform_data as a function of its two arguments.                      *)
(***************************************************************************)
RECURSIVE seed_loop(_, _)
seed_loop(a, n) ==
  IF n = 0 THEN <<>> ELSE seed_item(seed_loop(a, n - 1), a[n])

RECURSIVE merge_loop(_, _, _)
merge_loop(tp0, b, n) ==
  IF n = 0 THEN [tp |-> tp0, max |-> InitialMaxId(tp0)]
  ELSE merge_item(merge_loop(tp0, b, n - 1), b[n])

\* lab_5.py:226: the products' dicts, in the dict's order.
transform_data(a, b) ==
  Values(merge_loop(seed_loop(a, Len(a)), b, Len(b)).tp)

(***************************************************************************)
(* The raw records the model draws.                                        *)
(***************************************************************************)
RawA(id, name, category, price, stock) ==
  [id |-> id, name |-> name, category |-> category, price |-> price, stock |-> stock]

RawB(product_id, name, category, description, supplier, old_price, price, stock) ==
  [product_id |-> product_id, name |-> name, category |-> category,
   description |-> description, supplier |-> supplier,
   old_price |-> old_price, price |-> price, stock |-> stock]

Laptops == Str(<<"L","a","p","t","o","p","s">>)
NOTEBOOKS == Str(<<"N","O","T","E","B","O","O","K","S">>)
Smartphones == Str(<<"S","m","a","r","t","p","h","o","n","e","s">>)
Audio == Str(<<"A","u","d","i","o">>)
Tablets == Str(<<"T","a","b","l","e","t","s">>)
Wearables == Str(<<"W","e","a","r","a","b","l","e","s">>)
XyzUnknown == Str(<<"x","y","z","-","u","n","k","n","o","w","n">>)

\* Source-A items: two valid ids, a second valid item for id 1, a zero
\* price, a zero stock on an id that also has a valid item, a name shorter
\* than 3, and an item with no price.
PrimaryCandidates ==
  { RawA(Num(1), Str("Laptop Alpha"), Laptops, Num(25000), Num(10)),
    RawA(Num(2), Str("Gadget Beta"), XyzUnknown, Num(12000), Num(25)),
    RawA(Num(1), Str("Notebook Pro"), NOTEBOOKS, Num(100), Num(5)),
    RawA(Num(3), Str("Headphones Gamma"), Audio, Num(0), Num(5)),
    RawA(Num(2), Str("Tablet Delta"), Tablets, Num(8500), Num(0)),
    RawA(Num(3), Str("A"), Laptops, Num(100), Num(5)),
    RawA(Num(4), Str("Camera Zeta"), Audio, None, Num(5)) }

\* Source-B items: a price update with a reference price, a complete new
\* product, an update to a price and a stock no product may
\* have, a complete new product whose name is too short, a new product
\* without its core fields, and an item of the wrong shape.
PatchCandidates ==
  { RawB(Num(1), None, None, Str("High-performance laptop."), Str("SupplierX"),
         Num(26000), Num(24500), None),
    RawB(Num(5), Str("Smartwatch Epsilon"), Wearables, Str("Latest smartwatch."),
         Str("SupplierY"), None, Num(7500), Num(30)),
    RawB(Num(1), None, None, None, None, None, Num(-5), Num(-3)),
    RawB(Num(9), Str("X"), Audio, None, None, None, Num(50), Num(3)),
    RawB(Num(9), None, None, None, None, None, Num(50), None),
    RawB(None, Str("Speaker Eta"), Audio, None, None, None, Str("cheap"), Num(3)) }

BoundedSeq(S, n) == UNION {[1..k -> S] : k \in 0..n}

(***************************************************************************)
(* The files.  A source file is absent, holds text that is not JSON, or    *)
(* holds a JSON array of items.  The snapshot file is absent, holds the    *)
(* complete dump of a list, or holds what an interrupted dump left.        *)
(***************************************************************************)
Absent == [kind |-> "absent"]
Malformed == [kind |-> "malformed"]
Json(doc) == [kind |-> "json", doc |-> doc]

\* json.dump: None becomes null, a number a number, a str a string, a dict
\* an object and a list of dicts an array of objects.
DumpValue(x) ==
  CASE IsNone(x) -> [j |-> "null"]
    [] IsNum(x) -> [j |-> "number", v |-> x.v]
    [] IsStr(x) -> [j |-> "string", v |-> x.v]
DumpObject(d) == [f \in DOMAIN d |-> DumpValue(d[f])]
json_dump(data) ==
  IF IsList(data)
  THEN [j |-> "array", v |-> [i \in 1..Len(data.v) |-> DumpObject(data.v[i])]]
  ELSE [j |-> "null"]

\* json.load of a well-formed document.
LoadValue(x) ==
  CASE x.j = "null" -> None
    [] x.j = "number" -> Num(x.v)
    [] x.j = "string" -> Str(x.v)
LoadObject(o) == [f \in DOMAIN o |-> LoadValue(o[f])]
json_load(doc) ==
  IF doc.j = "array"
  THEN List([i \in 1..Len(doc.v) |-> LoadObject(doc.v[i])])
  ELSE None

NoResponse == [status |-> 0]
NoRequest == [pc |-> "none"]

\* The CRUD service of lab_4.py as its module leaves it: lines 23 and 25.
CrudIdle ==
  /\ products_db = <<>>
  /\ next_product_id = 1
  /\ crud_response = NoResponse
  /\ deleted_ids = {}

(***************************************************************************)
(* SpecTransform: transform_data(data_a, data_b), one loop iteration per   *)
(* step.                                                                   *)
(***************************************************************************)
ServiceIdle ==
  /\ source_a = Absent /\ source_b = Absent /\ consolidated = Absent
  /\ transformed_data = <<>>
  /\ load_log = "none"
  /\ run_response = NoResponse /\ get_response = NoResponse
  /\ get_request = NoRequest
  /\ runs = 0
  /\ CrudIdle

InitTransform ==
  /\ data_a \in {List(a) : a \in BoundedSeq(PrimaryCandidates, MaxPrimary)}
  /\ data_b \in {List(b) : b \in BoundedSeq(PatchCandidates, MaxPatch)}
  /\ pc = "seed"
  /\ idx = 1
  /\ transformed_products = <<>>
  /\ current_max_id = 0     \* not yet assigned; line 148 sets it
  /\ ServiceIdle

\* lab_5.py:113-144, one item of data_a
SeedStep ==
  /\ pc = "seed" /\ idx <= Len(data_a.v)
  /\ transformed_products' = seed_item(transformed_products, data_a.v[idx])
  /\ idx' = idx + 1
  /\ UNCHANGED <<data_a, data_b, pc, current_max_id>>
  /\ UNCHANGED serviceVars
  /\ UNCHANGED crudVars

\* lab_5.py:148, after the last item of data_a
StartMerge ==
  /\ pc = "seed" /\ idx > Len(data_a.v)
  /\ current_max_id' = InitialMaxId(transformed_products)
  /\ pc' = "merge"
  /\ idx' = 1
  /\ UNCHANGED <<data_a, data_b, transformed_products>>
  /\ UNCHANGED serviceVars
  /\ UNCHANGED crudVars

\* lab_5.py:150-224, one item of data_b
MergeStep ==
  /\ pc = "merge" /\ idx <= Len(data_b.v)
  /\ LET st == merge_item([tp |-> transformed_products, max |-> current_max_id],
                          data_b.v[idx])
     IN  /\ transformed_products' = st.tp
         /\ current_max_id' = st.max
  /\ idx' = idx + 1
  /\ UNCHANGED <<data_a, data_b, pc>>
  /\ UNCHANGED serviceVars
  /\ UNCHANGED crudVars

\* lab_5.py:226
Return ==
  /\ pc = "merge" /\ idx > Len(data_b.v)
  /\ pc' = "done"
  /\ UNCHANGED <<data_a, data_b, idx, transformed_products, current_max_id>>
  /\ UNCHANGED serviceVars
  /\ UNCHANGED crudVars

NextTransform == SeedStep \/ StartMerge \/ MergeStep \/ Return

SpecTransform == InitTransform /\ [][NextTransform]_vars

\* The list transform_data returns, once it has returned.
Output == Values(transformed_products)

(***************************************************************************)
(* SpecUpdate: the same steps of transform_data on inputs chosen for the   *)
(* update branch (lab_5.py:155-185): a few source-A items and patches that *)
(* address them.                                                           *)
(***************************************************************************)
Phones == Str(<<"p","h","o","n","e","s">>)

\* Source-A items: a name shorter than 3, the same item with a name long
\* enough, and an item with another id.
UpdatePrimaryCandidates ==
  { RawA(Num(1), Str("A"), Laptops, Num(100), Num(5)),
    RawA(Num(1), Str("Notebook Pro"), Laptops, Num(100), Num(5)),
    RawA(Num(2), Str("Gadget Beta"), XyzUnknown, Num(12000), Num(25)) }

\* Source-B items: a new price with a reference price, a new price with the
\* reference price 0, a reference price without a new price, an empty
\* description, new texts and a new stock, a supplier and a stock for
\* another id, and a new price alone.
UpdatePatchCandidates ==
  { RawB(Num(1), None, None, None, None, Num(100), Num(90), None),
    RawB(Num(1), None, None, None, None, Num(0), Num(90), None),
    RawB(Num(1), None, None, None, None, Num(50), None, None),
    RawB(Num(1), None, None, Str(""), None, None, None, None),
    RawB(Num(1), Str("Notebook Max"), Phones, Str("Now a phone."), Str("SupplierX"),
         None, None, Num(7)),
    RawB(Num(2), None, None, None, Str("SupplierZ"), None, None, Num(30)),
    RawB(Num(1), None, None, None, None, None, Num(80), None) }

InitUpdate ==
  /\ data_a \in {List(a) : a \in BoundedSeq(UpdatePrimaryCandidates, MaxPrimary)}
  /\ data_b \in {List(b) : b \in BoundedSeq(UpdatePatchCandidates, MaxPatch)}
  /\ pc = "seed"
  /\ idx = 1
  /\ transformed_products = <<>>
  /\ current_max_id = 0
  /\ ServiceIdle

SpecUpdate == InitUpdate /\ [][NextTransform]_vars

(***************************************************************************)
(* extract_data (lab_5.py:55-104).                                         *)
(***************************************************************************)
\* lab_5.py:65-70
sample_data_a ==
  << RawA(Num(1), Str("Laptop Alpha"), Laptops, Num(25000), Num(10)),
     RawA(Num(2), Str("Smartphone Beta"), Smartphones, Num(12000), Num(25)),
     RawA(Num(3), Str("Headphones Gamma"), Audio, Num(0), Num(5)),
     RawA(Num(4), Str("Tablet Delta"), Tablets, Num(8500), Num(0)) >>

\* lab_5.py:76-80
sample_data_b ==
  << RawB(Num(1), None, None, Str("High-performance laptop for professionals."),
          Str("SupplierX"), Num(26000), Num(24500), None),
     RawB(Num(5), Str("Smartwatch Epsilon"), Wearables,
          Str("Latest generation smartwatch."), Str("SupplierY"),
          None, Num(7500), Num(30)),
     RawB(Num(2), None, None, None, Str("SupplierZ"), None, None, Num(30)) >>

\* extract_data without lines 64-83: a missing file stays missing.
CreateIfMissingDisabled(file, sample) == file

\* lab_5.py:64-73 and 75-83: a source file that does not exist is created
\* with the sample data before anything is read.
CreateIfMissing(file, sample) ==
  IF file = Absent THEN Json(json_dump(List(sample))) ELSE file

\* lab_5.py:86-93 and 95-102: the list stays [] when open() raises
\* FileNotFoundError or json.load raises JSONDecodeError; otherwise it is
\* whatever json.load returns.
ReadSource(file) ==
  IF file.kind = "json" THEN json_load(file.doc) ELSE List(<<>>)

\* extract_data(): the two files after the call and the two values returned.
extract_data(file_a, file_b) ==
  LET fa == CreateIfMissing(file_a, sample_data_a)
      fb == CreateIfMissing(file_b, sample_data_b)
  IN  [source_a |-> fa, source_b |-> fb,
       data_a |-> ReadSource(fa), data_b |-> ReadSource(fb)]

\* `for item in data` raises TypeError when data is no list (lab_5.py:113,
\* 150); nothing in transform_data or run_etl_process catches it.
TransformRaises(a, b) == ~IsList(a) \/ ~IsList(b)

(***************************************************************************)
(* The responses.                                                          *)
(***************************************************************************)
HTTP_200_OK == 200
HTTP_404_NOT_FOUND == 404
HTTP_500_INTERNAL_SERVER_ERROR == 500

\* lab_5.py:267
RunOk(data) ==
  [status |-> HTTP_200_OK, consolidated_items_count |-> Len(data)]
RunError == [status |-> HTTP_500_INTERNAL_SERVER_ERROR]

\* lab_5.py:237-238: load_data catches the IOError of open() or json.dump
\* and logs it; "raised" would reach run_etl_process.
LoadFailure == "logged"

\* What run_etl_process answers after load_data ended in `outcome`.
RunAfterLoad(outcome, data) ==
  IF outcome = "raised" THEN RunError ELSE RunOk(data)

\* The handler with JSONDecodeError answered like FileNotFoundError.
get_consolidated_data_decode_as_404(file) ==
  IF file.kind # "json"
  THEN [status |-> HTTP_404_NOT_FOUND]
  ELSE LET data == json_load(file.doc)
       IN  IF ~IsList(data) THEN [status |-> HTTP_500_INTERNAL_SERVER_ERROR]
           ELSE IF \E i \in 1..Len(data.v) : ~ConsolidatedProduct(data.v[i])
           THEN [status |-> HTTP_500_INTERNAL_SERVER_ERROR]
           ELSE [status |-> HTTP_200_OK, body |-> data.v]

\* lab_5.py:274-288 on the snapshot file as open() finds it.
get_consolidated_data(file) ==
  IF file.kind = "absent"
  THEN [status |-> HTTP_404_NOT_FOUND]                      \* FileNotFoundError
  ELSE IF file.kind = "malformed"
  THEN [status |-> HTTP_500_INTERNAL_SERVER_ERROR]          \* JSONDecodeError
  ELSE LET data == json_load(file.doc)
       IN  IF ~IsList(data)
           THEN [status |-> HTTP_500_INTERNAL_SERVER_ERROR] \* TypeError, line 286
           ELSE IF \E i \in 1..Len(data.v) : ~ConsolidatedProduct(data.v[i])
           THEN [status |-> HTTP_500_INTERNAL_SERVER_ERROR] \* ValidationError
           ELSE [status |-> HTTP_200_OK, body |-> data.v]

(***************************************************************************)
(* Spec: the service.  POST /run-etl is one handler at a time; its write   *)
(* of the snapshot is the open (which truncates the file) and then the     *)
(* dump.  GET /consolidated-data reads the file in one step, at any        *)
(* moment: the reader may be another worker process of the same            *)
(* application.                                                            *)
(***************************************************************************)
\* The items the source files of Spec are made of: for A a valid item, a
\* zero-price item and an invalid one; for B a price update, an update to a
\* price and stock no product may have, and a complete new product.
FilePrimaryCandidates ==
  { RawA(Num(1), Str("Laptop Alpha"), Laptops, Num(25000), Num(10)),
    RawA(Num(3), Str("Headphones Gamma"), Audio, Num(0), Num(5)),
    RawA(Num(3), Str("A"), Laptops, Num(100), Num(5)) }

FilePatchCandidates ==
  { RawB(Num(1), None, None, Str("High-performance laptop."), Str("SupplierX"),
         Num(26000), Num(24500), None),
    RawB(Num(1), None, None, None, None, None, Num(-5), Num(-3)),
    RawB(Num(5), Str("Smartwatch Epsilon"), Wearables, Str("Latest smartwatch."),
         Str("SupplierY"), None, Num(7500), Num(30)) }

\* A source file is absent, is not JSON, holds the JSON value null, or holds
\* a JSON array of items.
SourceFilesA ==
  {Absent, Malformed, Json(json_dump(None))}
    \cup {Json(json_dump(List(a))) : a \in BoundedSeq(FilePrimaryCandidates, MaxFileItems)}

SourceFilesB ==
  {Absent, Malformed, Json(json_dump(None))}
    \cup {Json(json_dump(List(b))) : b \in BoundedSeq(FilePatchCandidates, MaxFileItems)}

Init ==
  /\ source_a \in SourceFilesA
  /\ source_b \in SourceFilesB
  /\ consolidated = Absent
  /\ data_a = List(<<>>) /\ data_b = List(<<>>)
  /\ pc = "idle"
  /\ idx = 1
  /\ transformed_products = <<>>
  /\ current_max_id = 0
  /\ transformed_data = <<>>
  /\ load_log = "none"
  /\ run_response = NoResponse
  /\ get_response = NoResponse
  /\ get_request = NoRequest
  /\ runs = 0
  /\ CrudIdle

\* lab_5.py:252-262: extract_data and transform_data.
RunStart ==
  /\ pc = "idle" /\ runs < MaxRuns
  /\ runs' = runs + 1
  /\ LET ex == extract_data(source_a, source_b)
     IN  /\ source_a' = ex.source_a /\ source_b' = ex.source_b
         /\ data_a' = ex.data_a /\ data_b' = ex.data_b
         /\ IF TransformRaises(ex.data_a, ex.data_b)
            THEN /\ transformed_data' = <<>>
                 /\ run_response' = RunError
                 /\ pc' = "idle"
            ELSE /\ transformed_data' = transform_data(ex.data_a.v, ex.data_b.v)
                 /\ run_response' = run_response
                 /\ pc' = "load"
  /\ UNCHANGED <<idx, transformed_products, current_max_id, consolidated,
                 load_log, get_response, get_request>>
  /\ UNCHANGED crudVars

\* lab_5.py:234: open(..., 'w') raises; 237-238 log it; 266-267 answer.
LoadOpenFails ==
  /\ pc = "load"
  /\ load_log' = "Error writing data"
  /\ run_response' = RunAfterLoad(LoadFailure, transformed_data)
  /\ pc' = "idle"
  /\ UNCHANGED <<data_a, data_b, idx, transformed_products, current_max_id,
                 source_a, source_b, consolidated, transformed_data,
                 get_response, get_request, runs>>
  /\ UNCHANGED crudVars

\* lab_5.py:234: open(..., 'w') creates or truncates the file.
LoadOpen ==
  /\ pc = "load"
  /\ consolidated' = Malformed
  /\ pc' = "writing"
  /\ UNCHANGED <<data_a, data_b, idx, transformed_products, current_max_id,
                 source_a, source_b, transformed_data, load_log,
                 run_response, get_response, get_request, runs>>
  /\ UNCHANGED crudVars

\* lab_5.py:235 raises part-way (the file keeps what was written so far);
\* 237-238 log it; 266-267 answer.
LoadDumpFails ==
  /\ pc = "writing"
  /\ load_log' = "Error writing data"
  /\ run_response' = RunAfterLoad(LoadFailure, transformed_data)
  /\ pc' = "idle"
  /\ UNCHANGED <<data_a, data_b, idx, transformed_products, current_max_id,
                 source_a, source_b, consolidated, transformed_data,
                 get_response, get_request, runs>>
  /\ UNCHANGED crudVars

\* lab_5.py:235-236 and 266-267: the dump completes and the handler answers.
LoadDump ==
  /\ pc = "writing"
  /\ consolidated' = Json(json_dump(List(transformed_data)))
  /\ load_log' = "Data loaded successfully"
  /\ run_response' = RunAfterLoad("ok", transformed_data)
  /\ pc' = "idle"
  /\ UNCHANGED <<data_a, data_b, idx, transformed_products, current_max_id,
                 source_a, source_b, transformed_data,
                 get_response, get_request, runs>>
  /\ UNCHANGED crudVars

\* lab_5.py:269-288
GetData ==
  /\ get_response' = get_consolidated_data(consolidated)
  /\ get_request' = [pc |-> pc, runs |-> runs, read |-> consolidated]
  /\ UNCHANGED <<data_a, data_b, pc, idx, transformed_products, current_max_id,
                 source_a, source_b, consolidated, transformed_data, load_log,
                 run_response, runs>>
  /\ UNCHANGED crudVars

Next ==
  \/ RunStart
  \/ LoadOpenFails
  \/ LoadOpen
  \/ LoadDumpFails
  \/ LoadDump
  \/ GetData

Spec == Init /\ [][Next]_vars

(***************************************************************************)
(* SpecCrud: the CRUD service of src/lab_4/lab_4.py.  Every handler is an  *)
(* async def without an await, so it runs from start to end in one step.   *)
(* FastAPI validates the request body before it calls the handler and the  *)
(* returned object against response_model after it.                        *)
(***************************************************************************)
MaxCreates == 2     \* POST /products requests accepted per behaviour of SpecCrud

HTTP_201_CREATED == 201
HTTP_204_NO_CONTENT == 204
HTTP_422_UNPROCESSABLE_ENTITY == 422

\* A field of ProductUpdate the request body did not set (exclude_unset).
Unset == [t |-> "unset"]
IsUnset(x) == x.t = "unset"

Body(name, category, price, stock) ==
  [name |-> name, category |-> category, price |-> price, stock |-> stock]

\* lab_4.py:7-11: ProductCreate(**body) validates.
ProductCreate(body) ==
  /\ IsStr(body.name) /\ Len(body.name.v) >= 3
  /\ IsStr(body.category)
  /\ IsNum(body.price) /\ body.price.v > 0
  /\ IsNum(body.stock) /\ body.stock.v >= 0

\* lab_4.py:13-17: ProductUpdate(**body) validates.  Every field is
\* Optional: it may be left out or be null, and a constraint applies only
\* to a value that is given.
ProductUpdate(body) ==
  /\ IsUnset(body.name) \/ IsNone(body.name)
       \/ (IsStr(body.name) /\ Len(body.name.v) >= 3)
  /\ IsUnset(body.category) \/ IsNone(body.category) \/ IsStr(body.category)
  /\ IsUnset(body.price) \/ IsNone(body.price)
       \/ (IsNum(body.price) /\ body.price.v > 0)
  /\ IsUnset(body.stock) \/ IsNone(body.stock)
       \/ (IsNum(body.stock) /\ body.stock.v >= 0)

\* lab_4.py:19-20: the object validates as a Product.
Product(p) == IsNum(p.id) /\ ProductCreate(p)

\* del d[k]
DictDel(d, k) == SelectSeq(d, LAMBDA e : e.key # k)

CrudAnswer(op, product_id, status) ==
  [op |-> op, product_id |-> product_id, status |-> status]

\* The status FastAPI answers when a handler returns the product: the
\* object is validated against response_model=Product first.
ReturnProduct(product, ok_status) ==
  IF Product(product) THEN ok_status ELSE HTTP_500_INTERNAL_SERVER_ERROR

\* Lines 39-45 with product_id = len(products_db) + 1 for the counter.
create_product_counting_entries(db, next, product_in) ==
  LET product_id == Len(db) + 1
      new_product == [id |-> Num(product_id),
                      name |-> product_in.name, category |-> product_in.category,
                      price |-> product_in.price, stock |-> product_in.stock]
  IN  [db |-> DictSet(db, product_id, new_product),
       next |-> next + 1,
       response |-> CrudAnswer("create", product_id,
                               ReturnProduct(new_product, HTTP_201_CREATED))]

\* lab_4.py:39-45
create_product(db, next, product_in) ==
  LET product_id == next
      new_product == [id |-> Num(product_id),
                      name |-> product_in.name, category |-> product_in.category,
                      price |-> product_in.price, stock |-> product_in.stock]
  IN  [db |-> DictSet(db, product_id, new_product),
       next |-> next + 1,
       response |-> CrudAnswer("create", product_id,
                               ReturnProduct(new_product, HTTP_201_CREATED))]

\* lab_4.py:68-71
get_product(db, product_id) ==
  IF ~Has(db, product_id)
  THEN CrudAnswer("get", product_id, HTTP_404_NOT_FOUND)
  ELSE CrudAnswer("get", product_id, ReturnProduct(Get(db, product_id), HTTP_200_OK))

\* lab_4.py:84-86: every field the body set, null included, is assigned
\* with setattr; assignment validates nothing.
SetFields(existing_product, product_in) ==
  [f \in DOMAIN existing_product |->
     IF f \in DOMAIN product_in /\ ~IsUnset(product_in[f])
     THEN product_in[f] ELSE existing_product[f]]

\* lab_4.py:80-88
update_product(db, product_id, product_in) ==
  IF ~Has(db, product_id)
  THEN [db |-> db, response |-> CrudAnswer("update", product_id, HTTP_404_NOT_FOUND)]
  ELSE LET existing_product == SetFields(Get(db, product_id), product_in)
       IN  [db |-> DictSet(db, product_id, existing_product),
            response |-> CrudAnswer("update", product_id,
                                    ReturnProduct(existing_product, HTTP_200_OK))]

\* Lines 97-101 without line 99: the entry would stay.
delete_product_keeping_entry(db, product_id) ==
  IF ~Has(db, product_id)
  THEN [db |-> db, response |-> CrudAnswer("delete", product_id, HTTP_404_NOT_FOUND)]
  ELSE [db |-> db,
        response |-> CrudAnswer("delete", product_id, HTTP_204_NO_CONTENT)]

\* lab_4.py:97-101
delete_product(db, product_id) ==
  IF ~Has(db, product_id)
  THEN [db |-> db, response |-> CrudAnswer("delete", product_id, HTTP_404_NOT_FOUND)]
  ELSE [db |-> DictDel(db, product_id),
        response |-> CrudAnswer("delete", product_id, HTTP_204_NO_CONTENT)]

\* Request bodies of POST /products: the example of lines 8-11, a product
\* out of stock, and a name shorter than 3.
CreateBodies ==
  { Body(Str("Smartphone Alpha"), Str("Smartphones"), Num(15999), Num(50)),
    Body(Str("Lamp"), Str("Home"), Num(10), Num(0)),
    Body(Str("TV"), Str("Video"), Num(20000), Num(3)) }

\* Request bodies of PUT /products/{id}: a new price, a new name and stock,
\* a null name, no field at all, and a negative stock.
UpdateBodies ==
  { Body(Unset, Unset, Num(16500), Unset),
    Body(Str("Smartphone Alpha X"), Unset, Unset, Num(45)),
    Body(None, Unset, Unset, Unset),
    Body(Unset, Unset, Unset, Unset),
    Body(Unset, Unset, Unset, Num(-1)) }

\* The ids requests name: every id create_product can assign and one more.
ProductIds == 1..(MaxCreates + 1)

\* The ETL service, untouched.
EtlIdle ==
  /\ data_a = List(<<>>) /\ data_b = List(<<>>)
  /\ pc = "idle"
  /\ idx = 1
  /\ transformed_products = <<>>
  /\ current_max_id = 0
  /\ source_a = Absent /\ source_b = Absent /\ consolidated = Absent
  /\ transformed_data = <<>>
  /\ load_log = "none"
  /\ run_response = NoResponse /\ get_response = NoResponse
  /\ get_request = NoRequest
  /\ runs = 0

InitCrud == CrudIdle /\ EtlIdle

\* POST /products with a body ProductCreate accepts.
CreateProduct ==
  /\ next_product_id <= MaxCreates
  /\ \E product_in \in CreateBodies :
       /\ ProductCreate(product_in)
       /\ LET r == create_product(products_db, next_product_id, product_in)
          IN  /\ products_db' = r.db
              /\ next_product_id' = r.next
              /\ crud_response' = r.response
  /\ UNCHANGED deleted_ids
  /\ UNCHANGED etlVars

\* POST /products with a body ProductCreate rejects: the handler is not called.
CreateRejected ==
  /\ \E product_in \in CreateBodies :
       /\ ~ProductCreate(product_in)
       /\ crud_response' = CrudAnswer("create", 0, HTTP_422_UNPROCESSABLE_ENTITY)
  /\ UNCHANGED <<products_db, next_product_id, deleted_ids>>
  /\ UNCHANGED etlVars

\* GET /products/{product_id}
GetProduct ==
  /\ \E product_id \in ProductIds :
       crud_response' = get_product(products_db, product_id)
  /\ UNCHANGED <<products_db, next_product_id, deleted_ids>>
  /\ UNCHANGED etlVars

\* PUT /products/{product_id} with a body ProductUpdate accepts.
UpdateProduct ==
  /\ \E product_id \in ProductIds, product_in \in UpdateBodies :
       /\ ProductUpdate(product_in)
       /\ LET r == update_product(products_db, product_id, product_in)
          IN  /\ products_db' = r.db
              /\ crud_response' = r.response
  /\ UNCHANGED <<next_product_id, deleted_ids>>
  /\ UNCHANGED etlVars

\* PUT /products/{product_id} with a body ProductUpdate rejects.
UpdateRejected ==
  /\ \E product_id \in ProductIds, product_in \in UpdateBodies :
       /\ ~ProductUpdate(product_in)
       /\ crud_response' = CrudAnswer("update", product_id, HTTP_422_UNPROCESSABLE_ENTITY)
  /\ UNCHANGED <<products_db, next_product_id, deleted_ids>>
  /\ UNCHANGED etlVars

\* DELETE /products/{product_id}
DeleteProduct ==
  /\ \E product_id \in ProductIds :
       LET r == delete_product(products_db, product_id)
       IN  /\ products_db' = r.db
           /\ crud_response' = r.response
           /\ deleted_ids' = IF r.response.status = HTTP_204_NO_CONTENT
                              THEN deleted_ids \cup {product_id}
                              ELSE deleted_ids
  /\ UNCHANGED next_product_id
  /\ UNCHANGED etlVars

NextCrud ==
  \/ CreateProduct
  \/ CreateRejected
  \/ GetProduct
  \/ UpdateProduct
  \/ UpdateRejected
  \/ DeleteProduct

SpecCrud == InitCrud /\ [][NextCrud]_vars

(***************************************************************************)
(* Helpers of the properties.                                              *)
(***************************************************************************)
Remove(seq, j) == [i \in 1..(Len(seq) - 1) |-> IF i < j THEN seq[i] ELSE seq[i + 1]]

\* The dict after the source-A loop, and the dict and counter after the
\* first n items of the source-B loop.
Seeded(a) == seed_loop(a, Len(a))
Merged(a, b, n) == merge_loop(Seeded(a), b, n)

NoDuplicateIds(out) ==
  \A i, j \in 1..Len(out) : i # j => out[i].id # out[j].id

\* C1: after transform_data (seed, then merge) no two records of the
\* consolidated output have the same id.
C1_UniqueIds == pc = "done" => NoDuplicateIds(Output)

\* C1's case: the primary source repeats an id (both items kept), a patch
\* inserted a new record, and the function has returned.
C1_Witness ==
  /\ pc = "done"
  /\ \E i, j \in 1..Len(data_a.v) :
       /\ i < j /\ data_a.v[i].id = data_a.v[j].id
       /\ SeedOutcome(data_a.v[i]) = "kept" /\ SeedOutcome(data_a.v[j]) = "kept"
  /\ \E n \in 1..Len(data_b.v) :
       MergeOutcome(Merged(data_a.v, data_b.v, n - 1).tp, data_b.v[n]) = "inserted"
  /\ Len(Output) >= 2

\* C2: every record in the output of transform_data has price > 0 and
\* stock >= 0, also after a patch overwrote the price or stock of an
\* existing id.
C2_PositivePriceAndStock ==
  pc = "done" =>
    \A i \in 1..Len(Output) : Output[i].price.v > 0 /\ Output[i].stock.v >= 0

\* C3: the records the merge pass inserts get the ids M+1, M+2, ... in
\* patch input order with no gaps, M being the largest seeded id (0 for an
\* empty mapping): the n-th record appended after the seeded ones has id
\* M + n, whatever was updated or skipped in between.
C3_FreshIdsHaveNoGaps ==
  pc \in {"merge", "done"} =>
    LET seeded == Seeded(data_a.v)
        M == InitialMaxId(seeded)
    IN  \A i \in (Len(seeded) + 1)..Len(transformed_products) :
          /\ transformed_products[i].key = M + (i - Len(seeded))
          /\ transformed_products[i].val.id = Num(M + (i - Len(seeded)))

\* Items of data_a the seed loop drops, items of data_b the merge loop skips.
RejectedPrimary(i) == SeedOutcome(data_a.v[i]) # "kept"
RejectedPatch(n) ==
  MergeOutcome(Merged(data_a.v, data_b.v, n - 1).tp, data_b.v[n])
    \in {"invalid", "missing", "rejected"}

\* C9: a primary or patch record that transform_data rejects has no effect
\* on the result: the output equals the output for the same inputs with
\* that record removed.
C9_RejectedRecordHasNoEffect ==
  pc = "done" =>
    /\ \A i \in 1..Len(data_a.v) :
         RejectedPrimary(i) => transform_data(Remove(data_a.v, i), data_b.v) = Output
    /\ \A n \in 1..Len(data_b.v) :
         RejectedPatch(n) => transform_data(data_a.v, Remove(data_b.v, n)) = Output

\* A source-A item with price <= 0 or stock <= 0, or without one of them.
ZeroOrMissing(raw) ==
  \/ ~IsNum(raw.price) \/ raw.price.v <= 0
  \/ ~IsNum(raw.stock) \/ raw.stock.v <= 0

\* C10: every record of the seeded mapping comes from a primary candidate
\* with price > 0 and stock > 0 under the same id; an id whose only
\* candidates have price <= 0 or stock <= 0 (or lack one) is not a key.
C10_ZeroPriceOrStockDropped ==
  pc = "seed" =>
    /\ \A e \in 1..Len(transformed_products) :
         \E i \in 1..(idx - 1) :
           /\ ~ZeroOrMissing(data_a.v[i])
           /\ data_a.v[i].id = Num(transformed_products[e].key)
           /\ transformed_products[e].val.id = data_a.v[i].id
           /\ transformed_products[e].val.name = data_a.v[i].name
           /\ transformed_products[e].val.price = data_a.v[i].price
           /\ transformed_products[e].val.stock = data_a.v[i].stock
    /\ \A i \in 1..(idx - 1) :
         (\A j \in 1..(idx - 1) :
            data_a.v[j].id = data_a.v[i].id => ZeroOrMissing(data_a.v[j]))
         => ~Has(transformed_products, data_a.v[i].id.v)

\* C10's case: the seed loop has finished, it dropped a zero-price or
\* zero-stock item whose id is therefore absent, and it kept another item.
C10_Witness ==
  /\ pc = "seed" /\ idx > Len(data_a.v)
  /\ \E i \in 1..Len(data_a.v) :
       /\ IsNum(data_a.v[i].price) /\ IsNum(data_a.v[i].stock)
       /\ (data_a.v[i].price.v = 0 \/ data_a.v[i].stock.v = 0)
       /\ ~Has(transformed_products, data_a.v[i].id.v)
  /\ Len(transformed_products) >= 1

(***************************************************************************)
(* Properties of the service.                                              *)
(***************************************************************************)
\* C4: after a run that completed and wrote its snapshot, a GET with no run
\* in between answers 200 with exactly the records that run produced.
C4_GetReturnsWhatRunProduced ==
  ( /\ runs >= 1 /\ pc = "idle"
    /\ run_response.status = HTTP_200_OK
    /\ load_log = "Data loaded successfully"
    /\ get_request # NoRequest
    /\ get_request.pc = "idle" /\ get_request.runs = runs )
  => get_response = [status |-> HTTP_200_OK, body |-> transformed_data]

\* A JSON object of the snapshot that is no valid consolidated record.
InvalidSnapshotObject(o) ==
  \/ o.name.j # "string" \/ Len(o.name.v) < 3
  \/ o.price.j # "number" \/ o.price.v <= 0
  \/ o.stock.j # "number" \/ o.stock.v < 0

\* A snapshot file that exists and is malformed or holds an invalid record.
UnusableSnapshot(file) ==
  \/ file.kind = "malformed"
  \/ /\ file.kind = "json"
     /\ \/ file.doc.j # "array"
        \/ \E i \in 1..Len(file.doc.v) : InvalidSnapshotObject(file.doc.v[i])

\* C5: starting with no snapshot, every GET before the first run answers
\* NotFound (404); a GET answers 404 exactly when the snapshot file does not
\* exist, and answers ParseError (500) when the file exists but is
\* malformed or holds an invalid record.
C5_NotFoundAndParseErrorDistinct ==
  get_request # NoRequest =>
    /\ get_request.runs = 0 => get_response.status = HTTP_404_NOT_FOUND
    /\ get_response.status = HTTP_404_NOT_FOUND <=> get_request.read.kind = "absent"
    /\ UnusableSnapshot(get_request.read) =>
         get_response.status = HTTP_500_INTERNAL_SERVER_ERROR

\* C5's case: a run has written a snapshot that holds an invalid record, and
\* a GET of it answered 500.
C5_Witness ==
  /\ get_request # NoRequest
  /\ get_request.runs >= 1
  /\ get_request.read.kind = "json"
  /\ UnusableSnapshot(get_request.read)
  /\ get_response.status = HTTP_500_INTERNAL_SERVER_ERROR

\* C6: every finished run answered with a processed count equal to the
\* number of consolidated records, never with an error.
C6_RunAlwaysReturnsCount ==
  (pc = "idle" /\ run_response # NoResponse) =>
    /\ run_response.status = HTTP_200_OK
    /\ run_response.consolidated_items_count = Len(transformed_data)

\* C7: the snapshot is replaced atomically for readers: no GET, and in
\* particular none that runs while a run is writing, finds an empty or
\* partially written file.
C7_ReadersNeverSeePartialSnapshot ==
  get_request # NoRequest => get_request.read.kind # "malformed"

\* A step in which a POST /run-etl starts (and extract_data runs).
RunStarts == runs' = runs + 1

\* The run goes on to load_data with the other source's records.
ContinuesWith(other_file, other_data) ==
  (other_file.kind = "json" /\ IsList(json_load(other_file.doc))) =>
    /\ other_data = json_load(other_file.doc)
    /\ pc' = "load"

\* C8 as stated: extract_data yields an empty sequence for a source whose
\* file is absent or holds malformed JSON, and the run continues with the
\* other source.
C8_AbsentOrMalformedYieldsEmpty ==
  [][RunStarts =>
       /\ source_a.kind \in {"absent", "malformed"} =>
            data_a' = List(<<>>) /\ ContinuesWith(source_b, data_b')
       /\ source_b.kind \in {"absent", "malformed"} =>
            data_b' = List(<<>>) /\ ContinuesWith(source_a, data_a')]_vars

\* C8, amended: extract_data yields an empty sequence for a source whose
\* file holds text that is not JSON; an absent source file is first created with
\* the built-in sample records, and those are what it yields; either way
\* the run continues with the other source.
C8_MalformedYieldsEmptyAbsentYieldsSample ==
  [][RunStarts =>
       /\ source_a.kind = "malformed" =>
            /\ data_a' = List(<<>>) /\ source_a' = source_a
            /\ ContinuesWith(source_b, data_b')
       /\ source_b.kind = "malformed" =>
            /\ data_b' = List(<<>>) /\ source_b' = source_b
            /\ ContinuesWith(source_a, data_a')
       /\ source_a.kind = "absent" =>
            /\ data_a' = List(sample_data_a)
            /\ source_a'.kind = "json" /\ json_load(source_a'.doc) = data_a'
            /\ ContinuesWith(source_b, data_b')
       /\ source_b.kind = "absent" =>
            /\ data_b' = List(sample_data_b)
            /\ source_b'.kind = "json" /\ json_load(source_b'.doc) = data_b'
            /\ ContinuesWith(source_a, data_a')]_vars

\* C8's case: source A held malformed JSON and yielded no record, source B
\* was absent and yielded the sample records, and the run went on to
\* load_data with the one product the samples of B insert.
C8_Witness ==
  /\ runs = 1 /\ pc = "load"
  /\ source_a = Malformed /\ data_a = List(<<>>)
  /\ data_b = List(sample_data_b)
  /\ Len(transformed_data) = 1

(***************************************************************************)
(* Properties of the seed step, continued.                                 *)
(***************************************************************************)
\* The synonym table as a relation: lowercase synonym, canonical name.
SynonymTable ==
  { <<c_laptops, Noutbuky>>, <<c_notebooks, Noutbuky>>,
    <<c_smartphones, Smartfony>>, <<c_phones, Smartfony>>,
    <<c_audio, Audiotekhnika>>, <<c_headphones, Audiotekhnika>>,
    <<c_tablets, Planshety>>, <<c_wearables, NosymiPrystroi>> }

InTable(c) == lower(c) \in {p[1] : p \in SynonymTable}
Canonical(c) ==
  LET category_lower == lower(c)
  IN  (CHOOSE p \in SynonymTable : p[1] = category_lower)[2]

\* The PrimaryRecord shape, with the least stock it admits as a parameter.
PrimaryShape(raw, min_stock) ==
  /\ IsNum(raw.id)
  /\ IsStr(raw.name) /\ Len(raw.name.v) >= 3
  /\ IsStr(raw.category)
  /\ IsNum(raw.price) /\ raw.price.v > 0
  /\ IsNum(raw.stock) /\ raw.stock.v >= min_stock

\* The record the candidate raw is expected to be seeded as.
ExpectedSeed(raw) ==
  [id |-> raw.id,
   name |-> raw.name,
   category |-> IF InTable(raw.category.v) THEN Str(Canonical(raw.category.v))
                ELSE raw.category,
   price |-> raw.price,
   stock |-> raw.stock,
   description |-> None,
   supplier |-> None,
   price_change_percentage |-> None]

\* Every processed candidate of the shape, when no later processed
\* candidate of the shape carries its id, is the one record stored under
\* its id.
ShapeIsSeeded(min_stock) ==
  pc = "seed" =>
    \A i \in 1..(idx - 1) :
      ( /\ PrimaryShape(data_a.v[i], min_stock)
        /\ \A j \in (i + 1)..(idx - 1) :
             PrimaryShape(data_a.v[j], min_stock) => data_a.v[j].id # data_a.v[i].id )
      => /\ Cardinality({e \in 1..Len(transformed_products) :
                           transformed_products[e].key = data_a.v[i].id.v}) = 1
         /\ Get(transformed_products, data_a.v[i].id.v) = ExpectedSeed(data_a.v[i])

\* C11 as stated: every primary candidate with integer id, a name of at
\* least 3 characters, price > 0 and stock >= 0 yields one record in the
\* seeded mapping under the same id, with the canonical category when its
\* category matches the synonym table case-insensitively and with its own
\* category otherwise.
C11_ValidPrimaryIsSeeded == ShapeIsSeeded(0)

\* C11, amended: the same for every primary candidate with integer id, a
\* name of at least 3 characters, price > 0 and stock > 0 (a candidate with
\* stock 0 is dropped by the cleaning of line 116).
C11_InStockPrimaryIsSeeded == ShapeIsSeeded(1)

\* C11's case: the seed loop has finished on a candidate whose category
\* matches the table in another case and one whose category is not in the
\* table; the first is stored under the canonical name, the second unchanged.
C11_Witness ==
  /\ pc = "seed" /\ idx > Len(data_a.v)
  /\ \E i, j \in 1..Len(data_a.v) :
       /\ data_a.v[i].category = NOTEBOOKS
       /\ Has(transformed_products, data_a.v[i].id.v)
       /\ Get(transformed_products, data_a.v[i].id.v).category = Str(Noutbuky)
       /\ data_a.v[j].category = XyzUnknown
       /\ Has(transformed_products, data_a.v[j].id.v)
       /\ Get(transformed_products, data_a.v[j].id.v).category = XyzUnknown

(***************************************************************************)
(* Properties of the merge step, continued.                                *)
(***************************************************************************)
\* C12: merging an empty patch sequence changes nothing: transform_data on
\* any primary input and [] returns exactly the seeded records, each with
\* the fields the seed step gave it and no price_change_percentage.
C12_EmptyPatchReturnsSeed ==
  (pc = "done" /\ data_b.v = <<>>) =>
    /\ Output = Values(Seeded(data_a.v))
    /\ \A e \in 1..Len(Output) :
         /\ Output[e].price_change_percentage = None
         /\ \E i \in 1..Len(data_a.v) : Output[e] = ExpectedSeed(data_a.v[i])

\* C12's case: transform_data has returned for two seeded records and an
\* empty patch list.
C12_Witness ==
  /\ pc = "done" /\ data_b.v = <<>>
  /\ Len(Seeded(data_a.v)) = 2
  /\ Len(Output) = 2

\* The patch is well-typed and supplies name, category, price and stock.
PatchSuppliesCore(raw) ==
  /\ IsNum(raw.product_id)
  /\ IsStr(raw.name) /\ Len(raw.name.v) > 0
  /\ IsStr(raw.category) /\ Len(raw.category.v) > 0
  /\ IsNum(raw.price) /\ IsNum(raw.stock)
  /\ raw.description.t \in {"none", "str"} /\ raw.supplier.t \in {"none", "str"}
  /\ raw.old_price.t \in {"none", "num"}

\* The values it supplies are ones a consolidated record may hold.
PatchMeetsConstraints(raw) ==
  Len(raw.name.v) >= 3 /\ raw.price.v > 0 /\ raw.stock.v >= 0

\* The merge loop is at a patch that supplies the core fields and whose
\* identifier is not in the mapping.
AtNewCompletePatch ==
  /\ pc = "merge" /\ idx <= Len(data_b.v)
  /\ PatchSuppliesCore(data_b.v[idx])
  /\ ~Has(transformed_products, data_b.v[idx].product_id.v)

\* The step appends one record for the patch at idx, under an id above
\* every id of the mapping, and changes no other entry.
InsertsUnderFreshId ==
  LET raw == data_b.v[idx]
      n == Len(transformed_products)
  IN  /\ Len(transformed_products') = n + 1
      /\ SubSeq(transformed_products', 1, n) = transformed_products
      /\ LET new == transformed_products'[n + 1]
         IN  /\ \A k \in Keys(transformed_products) : new.key > k
             /\ new.val =
                  [id |-> Num(new.key),
                   name |-> raw.name,
                   category |-> IF InTable(raw.category.v)
                                THEN Str(Canonical(raw.category.v))
                                ELSE raw.category,
                   price |-> raw.price,
                   stock |-> raw.stock,
                   description |-> raw.description,
                   supplier |-> raw.supplier,
                   price_change_percentage |-> None]

PatchLacksCore(raw) ==
  /\ IsNum(raw.product_id)
  /\ raw.name.t \in {"none", "str"} /\ raw.category.t \in {"none", "str"}
  /\ raw.price.t \in {"none", "num"} /\ raw.stock.t \in {"none", "num"}
  /\ raw.description.t \in {"none", "str"} /\ raw.supplier.t \in {"none", "str"}
  /\ raw.old_price.t \in {"none", "num"}
  /\ \/ IsNone(raw.name) \/ IsNone(raw.category)
     \/ IsNone(raw.price) \/ IsNone(raw.stock)

\* The n-th patch lacks a core field and its identifier is not in the
\* mapping the loop holds when it reaches it.
SkippedForMissingCore(n) ==
  /\ PatchLacksCore(data_b.v[n])
  /\ ~Has(Merged(data_a.v, data_b.v, n - 1).tp, data_b.v[n].product_id.v)

\* C14: a patch whose identifier is not in the mapping and that lacks one
\* of name, category, price and stock is skipped: the step leaves the
\* mapping and the id counter as they were, and the result of the pass is
\* the result of the pass without that patch, so a later insertion gets the
\* id it would have got.
C14_IncompletePatchSkippedNoIdConsumed ==
  [][ /\ ( /\ pc = "merge" /\ idx <= Len(data_b.v)
           /\ PatchLacksCore(data_b.v[idx])
           /\ ~Has(transformed_products, data_b.v[idx].product_id.v) )
         => /\ transformed_products' = transformed_products
            /\ current_max_id' = current_max_id
      /\ pc' = "done"
         => \A n \in 1..Len(data_b.v) :
              SkippedForMissingCore(n)
              => Values(transformed_products')
                   = transform_data(data_a.v, Remove(data_b.v, n)) ]_vars

\* C14's case: with nothing seeded, the first patch lacked name, category
\* and stock and was skipped, and the second was inserted under id 1.
C14_Witness ==
  /\ pc = "done"
  /\ Seeded(data_a.v) = <<>>
  /\ Len(data_b.v) = 2
  /\ PatchLacksCore(data_b.v[1])
  /\ Len(Output) = 1
  /\ Output[1].id = Num(1)
  /\ Output[1].name = data_b.v[2].name

(***************************************************************************)
(* Properties of the update branch.                                        *)
(***************************************************************************)
\* The primary record and the patch of the end-to-end example, with the
\* name as a parameter.
ExamplePrimary(name) == RawA(Num(1), Str(name), Laptops, Num(100), Num(5))
ExamplePatch == RawB(Num(1), None, None, None, None, Num(100), Num(90), None)

\* What the example is said to produce: one record with id 1, the name,
\* the canonical laptop category, stock 5, price 90 and
\* price_change_percentage -10.0 (-1000 hundredths).
ExampleRecord(name) ==
  [id |-> Num(1), name |-> Str(name), category |-> Str(Noutbuky),
   price |-> Num(90), stock |-> Num(5),
   description |-> None, supplier |-> None,
   price_change_percentage |-> Num(-1000)]

EndToEnd(name) ==
  (pc = "done" /\ data_a.v = <<ExamplePrimary(name)>> /\ data_b.v = <<ExamplePatch>>)
    => Output = <<ExampleRecord(name)>>

\* C15 as stated: primary = [{id 1, name "A", category "Laptops", price
\* 100, stock 5}] and patch = [{product_id 1, old_price 100, price 90}]
\* produce exactly one record: id 1, name "A", the canonical laptop
\* category, stock 5, price 90, price_change_percentage -10.0.
C15_EndToEndExample == EndToEnd("A")

\* C15, amended: the same with a name of at least 3 characters,
\* "Notebook Pro".
C15_EndToEndExampleLongName == EndToEnd("Notebook Pro")

\* C15's case: transform_data has returned for the amended example's
\* inputs, with one record whose price the patch has set.
C15_Witness ==
  /\ pc = "done"
  /\ data_a.v = <<ExamplePrimary("Notebook Pro")>>
  /\ data_b.v = <<ExamplePatch>>
  /\ Len(Output) = 1
  /\ Output[1].price = Num(90)

(***************************************************************************)
(* Properties of the CRUD service.                                         *)
(***************************************************************************)
\* The step is a get_product, update_product or delete_product call.
HandlerCalled ==
  /\ crud_response'.op \in {"get", "update", "delete"}
  /\ crud_response'.status # HTTP_422_UNPROCESSABLE_ENTITY

\* C16: get_product, update_product and delete_product on an id that is
\* not in products_db answer 404 and leave products_db and next_product_id
\* unchanged; once an id has been deleted, every later get, update or
\* delete of that id answers 404.
C16_MissingIdAnswers404 ==
  [][HandlerCalled =>
       /\ ~Has(products_db, crud_response'.product_id)
          => /\ crud_response'.status = HTTP_404_NOT_FOUND
             /\ products_db' = products_db
             /\ next_product_id' = next_product_id
       /\ crud_response'.product_id \in deleted_ids
          => crud_response'.status = HTTP_404_NOT_FOUND]_vars

\* C16's case: product 1 was created and then deleted, another product
\* exists, and a later request for id 1 answered 404.
C16_Witness ==
  /\ 1 \in deleted_ids
  /\ Has(products_db, 2)
  /\ crud_response.op \in {"get", "update"}
  /\ crud_response.product_id = 1
  /\ crud_response.status = HTTP_404_NOT_FOUND

\* The reference price of patch raw for a record: the patch's old_price if
\* it supplies one, else the record's price before the patch.
ReferencePrice(raw, record) ==
  IF IsNum(raw.old_price) THEN raw.old_price.v ELSE record.price.v

\* C17: price_change_percentage of a record is set only by a patch for
\* that record that supplies a price different from its reference price,
\* the reference price being non-zero; a patch that supplies no price never
\* sets it, and an inserted record has none.
C17_PercentageOnlyFromSuppliedPrice ==
  [][ /\ \A e \in 1..Len(transformed_products) :
           ( /\ e <= Len(transformed_products')
             /\ transformed_products'[e].val.price_change_percentage
                  # transformed_products[e].val.price_change_percentage )
           => /\ pc = "merge"
              /\ data_b.v[idx].product_id = Num(transformed_products[e].key)
              /\ IsNum(data_b.v[idx].price)
              /\ ReferencePrice(data_b.v[idx], transformed_products[e].val) # 0
              /\ data_b.v[idx].price.v
                   # ReferencePrice(data_b.v[idx], transformed_products[e].val)
      /\ \A e \in (Len(transformed_products) + 1)..Len(transformed_products') :
           transformed_products'[e].val.price_change_percentage = None ]_vars

\* The merge loop is at a well-typed patch whose identifier is in the mapping.
AtPatchForExisting ==
  /\ pc = "merge" /\ idx <= Len(data_b.v)
  /\ IsNum(data_b.v[idx].product_id)
  /\ Has(transformed_products, data_b.v[idx].product_id.v)
  /\ data_b.v[idx].name.t \in {"none", "str"}
  /\ data_b.v[idx].category.t \in {"none", "str"}
  /\ data_b.v[idx].description.t \in {"none", "str"}
  /\ data_b.v[idx].supplier.t \in {"none", "str"}
  /\ data_b.v[idx].old_price.t \in {"none", "num"}
  /\ data_b.v[idx].price.t \in {"none", "num"}
  /\ data_b.v[idx].stock.t \in {"none", "num"}

Abs(x) == IF x < 0 THEN -x ELSE x

\* h hundredths of a percent is ((p - r) / r) * 100 rounded to 2 decimals:
\* no multiple of 0.01 is nearer to the exact quotient.
IsRoundedPercentage(h, p, r) == 2 * Abs(h * r - (p - r) * 10000) <= Abs(r)

\* C18: a patch on an existing record, with new price p (the patch's
\* price, else the existing price) and reference price r (the patch's
\* old_price, else the existing price): when r # 0 and p # r the record's
\* price_change_percentage becomes ((p - r) / r) * 100 rounded to 2
\* decimals; when r = 0 it stays what it was; r is taken from the price the
\* record had before the patch, and the record's price is the patch's price
\* afterwards if the patch supplies one.
C18_PercentageFromReferencePrice ==
  [][AtPatchForExisting =>
       LET raw == data_b.v[idx]
           before == Get(transformed_products, raw.product_id.v)
           after == Get(transformed_products', raw.product_id.v)
           new_price == IF IsNum(raw.price) THEN raw.price.v ELSE before.price.v
           r == ReferencePrice(raw, before)
       IN  /\ (r # 0 /\ new_price # r)
              => /\ IsNum(after.price_change_percentage)
                 /\ IsRoundedPercentage(after.price_change_percentage.v, new_price, r)
           /\ r = 0 => after.price_change_percentage = before.price_change_percentage
           /\ after.price = IF IsNum(raw.price) THEN raw.price ELSE before.price]_vars

\* C18's case: a patch that supplies price 80 and no old_price was applied
\* to a record whose price was 100: the percentage is -20.0, computed from
\* the old price, and the price is 80.
C18_Witness ==
  /\ pc = "merge" /\ idx = 2
  /\ data_b.v[1].price = Num(80) /\ data_b.v[1].old_price = None
  /\ Has(Seeded(data_a.v), 1) /\ Get(Seeded(data_a.v), 1).price = Num(100)
  /\ Get(transformed_products, 1).price = Num(80)
  /\ Get(transformed_products, 1).price_change_percentage = Num(-2000)

\* The patch supplies the field: the key is present with a value.
Supplies(x) == ~IsNone(x)

\* C19: a patch for an existing id changes only the fields it supplies:
\* the record keeps its id and every one of name, category, description,
\* supplier, stock and price that the patch does not supply; each field the
\* patch supplies takes the patch's value (the category after
\* normalization); no other record of the mapping changes.
C19_PatchChangesOnlySuppliedFields ==
  [][AtPatchForExisting =>
       LET raw == data_b.v[idx]
           before == Get(transformed_products, raw.product_id.v)
           after == Get(transformed_products', raw.product_id.v)
       IN  /\ after.id = before.id
           /\ after.name = IF Supplies(raw.name) THEN raw.name ELSE before.name
           /\ after.category =
                IF Supplies(raw.category)
                THEN (IF InTable(raw.category.v) THEN Str(Canonical(raw.category.v))
                      ELSE raw.category)
                ELSE before.category
           /\ after.description =
                IF Supplies(raw.description) THEN raw.description ELSE before.description
           /\ after.supplier =
                IF Supplies(raw.supplier) THEN raw.supplier ELSE before.supplier
           /\ after.stock = IF Supplies(raw.stock) THEN raw.stock ELSE before.stock
           /\ after.price = IF Supplies(raw.price) THEN raw.price ELSE before.price
           /\ Len(transformed_products') = Len(transformed_products)
           /\ \A e \in 1..Len(transformed_products) :
                transformed_products[e].key # raw.product_id.v
                => transformed_products'[e] = transformed_products[e]]_vars

(***************************************************************************)
(* Properties of the merge step: identifiers assigned during the pass.     *)
(***************************************************************************)
\* C20: in one merge pass a patch whose identifier is absent from the
\* pre-merge mapping is never applied as an update to a record inserted
\* earlier in the pass (no entry the mapping already holds changes), and
\* when it can be inserted it gets its own fresh id.
C20_UnmatchedPatchNeverUpdatesInserted ==
  [][ ( /\ pc = "merge" /\ idx <= Len(data_b.v)
        /\ IsNum(data_b.v[idx].product_id)
        /\ ~Has(Seeded(data_a.v), data_b.v[idx].product_id.v) )
      => /\ SubSeq(transformed_products', 1, Len(transformed_products))
              = transformed_products
         /\ ( PatchSuppliesCore(data_b.v[idx])
              /\ PatchMeetsConstraints(data_b.v[idx]) )
            => Len(transformed_products') = Len(transformed_products) + 1 ]_vars

\* The ids products have had so far: those in products_db and those deleted.
IdsEverUsed == Keys(products_db) \cup deleted_ids

\* The step is a create_product call.
ProductCreated ==
  /\ crud_response'.op = "create"
  /\ crud_response'.status # HTTP_422_UNPROCESSABLE_ENTITY

\* C21: across any sequence of create, update and delete requests,
\* create_product assigns strictly increasing ids: a created product gets an
\* id above every id a product ever had, so the id of a deleted product is
\* never reused, and next_product_id is always greater than every key of
\* products_db.
C21_CreatedIdsStrictlyIncrease ==
  [][ /\ ProductCreated
         => /\ crud_response'.status = HTTP_201_CREATED
            /\ \A k \in IdsEverUsed : crud_response'.product_id > k
            /\ Has(products_db', crud_response'.product_id)
            /\ Get(products_db', crud_response'.product_id).id
                 = Num(crud_response'.product_id)
            /\ Keys(products_db') = Keys(products_db) \cup {crud_response'.product_id}
            /\ next_product_id' > next_product_id
      /\ ~ProductCreated
         => /\ Keys(products_db') \subseteq Keys(products_db)
            /\ next_product_id' = next_product_id
      /\ \A k \in Keys(products_db') \cup deleted_ids' : k < next_product_id' ]_vars

\* C21's case: product 1 was created and deleted, and the product created
\* after the delete got id 2.
C21_Witness ==
  /\ deleted_ids = {1}
  /\ Keys(products_db) = {2}
  /\ crud_response.op = "create"
  /\ crud_response.product_id = 2
  /\ crud_response.status = HTTP_201_CREATED
  /\ next_product_id = 3

\* C22: after any sequence of create_product, update_product and
\* delete_product requests whose bodies validation accepted, every entry of
\* products_db is stored under the key equal to its id and has a name of at
\* least 3 characters, a category, a price > 0 and a stock >= 0.
C22_StoredProductsAreValid ==
  \A e \in 1..Len(products_db) :
    LET product == products_db[e].val
    IN  /\ product.id = Num(products_db[e].key)
        /\ product.name.t = "str" /\ Len(product.name.v) >= 3
        /\ product.category.t = "str"
        /\ product.price.t = "num" /\ product.price.v > 0
        /\ product.stock.t = "num" /\ product.stock.v >= 0

====
